---- MODULE Spec2Model ----
(***************************************************************************)
(* A model of moka's two chainable wrappers, List and Dict                 *)
(* (src/moka/__init__.py, Python 2).                                       *)
(*                                                                         *)
(* `seq` holds the elements of the List the caller works on.  A call on it   *)
(* returns the receiver itself, a new List, or a scalar; `op` records the  *)
(* last call and `prev` the call before it when the two form a compared    *)
(* pair.  `d` is the Dict the caller works on, `d0` its contents at        *)
(* construction, and `dop` records the last call on it.                    *)
(***************************************************************************)
EXTENDS Integers, Sequences, FiniteSets, TLC

VARIABLES seq, op, prev, d, d0, dop

vars == <<seq, op, prev, d, d0, dop>>

\* ------------------------------------------------------------------------
\* Values
\* ------------------------------------------------------------------------

\* Python's None, encoded below every int: Python 2 orders None before all
\* numbers, so the encoding keeps `<` and `==` as the interpreter has them.
None == -1

\* The placeholder class Blank (only ever compared by ==, never ordered).
Blank == -2

\* The ints that occur as elements and as fixed operands.
Nums == {0, 1}

Elem == {None} \cup Nums

\* Longest List the caller builds (initially and by append/extend/insert).
MaxLen == 3

Lists == UNION {[1..n -> Elem] : n \in 0..MaxLen}

Min(a, b) == IF a < b THEN a ELSE b

Max(a, b) == IF a > b THEN a ELSE b

Range(s) == {s[j] : j \in 1..Len(s)}

\* bool(v) for v None or an int.
Truthy(v) == v # None /\ v # 0

\* True and False are the ints 1 and 0.
Bool(b) == IF b THEN 1 ELSE 0

\* The callables handed to the wrappers: operator.truth, operator.not_,
\* operator.eq, operator.lt, called with the positional arguments argv.
ApplyF(f, argv) ==
    CASE f = "truth" -> Bool(Truthy(argv[1]))
      [] f = "not_"  -> Bool(~Truthy(argv[1]))
      [] f = "eq"    -> Bool(argv[1] = argv[2])
      [] f = "lt"    -> Bool(argv[1] < argv[2])

\* The fn-specs (f, *args) a caller passes: a unary callable alone, a binary
\* callable with its second operand, or a binary callable with one operand
\* and the placeholder on either side.
FnSpecs ==
    {[f |-> u, args |-> <<>>] : u \in {"truth", "not_"}}
    \cup {[f |-> b, args |-> <<a>>] : b \in {"eq", "lt"}, a \in Nums}
    \cup {[f |-> "lt", args |-> g] :
            g \in {<<a, Blank>> : a \in Nums} \cup {<<Blank, a>> : a \in Nums}}

NoFn == [f |-> "none", args |-> <<>>]

\* ------------------------------------------------------------------------
\* List._f: the argument binder
\* ------------------------------------------------------------------------

\* args.index(Blank)
Index(args, v) ==
    CHOOSE p \in 1..Len(args) : args[p] = v /\ \A q \in 1..(p - 1) : args[q] # v

\* The closure _f returns.  In "blank" mode `args` is the list the closure
\* shares between its calls and `pos` the placeholder's index, found once.
List_f(fn) ==
    IF fn.args = <<>>
    THEN [f |-> fn.f, mode |-> "plain", args |-> <<>>, pos |-> 0]
    ELSE IF Blank \notin Range(fn.args)
    THEN [f |-> fn.f, mode |-> "first", args |-> fn.args, pos |-> 0]
    ELSE [f |-> fn.f, mode |-> "blank", args |-> fn.args,
          pos |-> Index(fn.args, Blank)]

\* A slip in tmp: the element is put in front instead of in the slot.
tmp_prepend(cl, x) == <<x>> \o cl.args

\* tmp: args[pos] = x, then f(*args)
tmp(cl, x) == [cl.args EXCEPT ![cl.pos] = x]

\* One call of the bound function on element x: the arguments f receives,
\* f's result, and the closure afterwards (tmp writes into the shared list).
Call(cl, x) ==
    LET argv == CASE cl.mode = "plain" -> <<x>>
                  [] cl.mode = "first" -> <<x>> \o cl.args
                  [] cl.mode = "blank" -> tmp(cl, x)
    IN  [argv |-> argv,
         out  |-> ApplyF(cl.f, argv),
         cl   |-> IF cl.mode = "blank" THEN [cl EXCEPT !.args = argv] ELSE cl]

\* The calls a full traversal `for x in self` makes, in order.
RECURSIVE Trace(_, _)
Trace(l, cl) ==
    IF l = <<>> THEN <<>>
    ELSE LET c == Call(cl, Head(l))
         IN  <<[argv |-> c.argv, out |-> c.out]>> \o Trace(Tail(l), c.cl)

\* Index of the first call whose result has truth value `want`, 0 if none.
FirstHit(t, want) ==
    IF \E j \in 1..Len(t) : Truthy(t[j].out) = want
    THEN CHOOSE j \in 1..Len(t) :
            /\ Truthy(t[j].out) = want
            /\ \A k \in 1..(j - 1) : Truthy(t[k].out) # want
    ELSE 0

\* The calls a loop makes that returns at the first call with truth `want`.
Upto(t, want) ==
    IF FirstHit(t, want) = 0 THEN t ELSE SubSeq(t, 1, FirstHit(t, want))

Argvs(t) == [j \in 1..Len(t) |-> t[j].argv]

\* ------------------------------------------------------------------------
\* List: the values the operations compute
\* ------------------------------------------------------------------------

\* (f(x) for x in self)
MapItems(self, fn) ==
    LET t == Trace(self, List_f(fn)) IN [j \in 1..Len(t) |-> t[j].out]

RECURSIVE Pick(_, _, _)
Pick(l, t, want) ==
    IF l = <<>> THEN <<>>
    ELSE (IF Truthy(Head(t).out) = want THEN <<Head(l)>> ELSE <<>>)
         \o Pick(Tail(l), Tail(t), want)

\* (x for x in self if f(x))
KeepItems(self, fn) == Pick(self, Trace(self, List_f(fn)), TRUE)

\* (x for x in self if not f(x))
RemItems(self, fn) == Pick(self, Trace(self, List_f(fn)), FALSE)

RECURSIVE InsertSorted(_, _)
InsertSorted(x, s) ==
    IF s = <<>> THEN <<x>>
    ELSE IF x <= Head(s) THEN <<x>> \o s
    ELSE <<Head(s)>> \o InsertSorted(x, Tail(s))

RECURSIVE PySort(_)
PySort(s) == IF s = <<>> THEN <<>> ELSE InsertSorted(Head(s), PySort(Tail(s)))

Rev(s) == [j \in 1..Len(s) |-> s[Len(s) + 1 - j]]

\* list.insert(i, x): a negative index counts from the end, and the index
\* is clamped to the list.
PyInsert(s, i, x) ==
    LET k == IF i < 0 THEN Max(i + Len(s), 0) ELSE Min(i, Len(s))
    IN  SubSeq(s, 1, k) \o <<x>> \o SubSeq(s, k + 1, Len(s))

\* getattr(list, method_name)(inst, *args)
Native(method, inst, args) ==
    CASE method = "append"  -> inst \o <<args[1]>>
      [] method = "extend"  -> inst \o args
      [] method = "insert"  -> PyInsert(inst, args[1], args[2])
      [] method = "sort"    -> PySort(inst)
      [] method = "reverse" -> Rev(inst)

\* ------------------------------------------------------------------------
\* List: effects.  Each gives the receiver's elements afterwards (self),
\* whether the object returned is a new one (fresh), and the elements of
\* the object returned (out).
\* ------------------------------------------------------------------------

\* List(self): a new object with the same elements
List_clone(self) == [self |-> self, fresh |-> TRUE, out |-> self]

\* A slip in _moka_assign: build a new List as Dict._moka_assign does.
List_moka_assign_new(self, items) ==
    [self |-> self, fresh |-> TRUE, out |-> items]

\* self[:] = items; return self
List_moka_assign(self, items) ==
    [self |-> items, fresh |-> FALSE, out |-> items]

\* a.b(): b is called on the object that a returned
Chain(a, b) == [self |-> a.self, fresh |-> a.fresh \/ b.fresh, out |-> b.out]

\* A slip in wrap: the native method is applied to the receiver itself.
List_wrap_self(self, method, args) ==
    [self |-> Native(method, self, args), fresh |-> FALSE,
     out |-> Native(method, self, args)]

\* _proxy's wrap: inst = List(self); list.<method>(inst, ...); return inst
List_wrap(self, method, args) ==
    LET c == List_clone(self)
    IN  [self |-> c.self, fresh |-> c.fresh, out |-> Native(method, c.out, args)]

\* A slip in keep: the filter is run on a copy, as the proxied methods do.
List_keep_effect_copy(self, fn) ==
    Chain(List_clone(self), List_moka_assign(self, KeepItems(self, fn)))

\* keep: self._moka_assign(x for x in self if f(x))
List_keep_effect(self, fn) == List_moka_assign(self, KeepItems(self, fn))

\* A slip in rem: the `not` is lost.
List_rem_effect_keeps(self, fn) == List_moka_assign(self, KeepItems(self, fn))

\* rem: self._moka_assign(x for x in self if not f(x))
List_rem_effect(self, fn) == List_moka_assign(self, RemItems(self, fn))

\* A slip in count: the predicate form returns the length as well.
List_count_len(self, fn) == Len(self)

\* count with a predicate: self.clone().keep(...).count()
List_count_value(self, fn) ==
    LET c == List_clone(self) IN Len(Chain(c, List_keep_effect(c.out, fn)).out)

\* A slip in find: the last matching element instead of the first.
List_find_last(self, fn) ==
    LET t == Trace(self, List_f(fn))
        hits == {j \in 1..Len(t) : Truthy(t[j].out)}
    IN  IF hits = {} THEN None
        ELSE self[CHOOSE j \in hits : \A k \in hits : k <= j]

\* find: the first x with f(x) truthy; falling off the loop returns None
List_find_value(self, fn) ==
    LET t == Trace(self, List_f(fn))
    IN  IF FirstHit(t, TRUE) = 0 THEN None ELSE self[FirstHit(t, TRUE)]

\* ------------------------------------------------------------------------
\* Call records
\* ------------------------------------------------------------------------

NoCall ==
    [name |-> "none", fn |-> NoFn, args |-> <<>>, pre |-> <<>>,
     kind |-> "none", out |-> <<>>, val |-> 0, calls |-> <<>>]

\* A call that returned a List: the receiver ("self") or a new one ("new").
RefCall(name, fn, args, r, calls) ==
    [name |-> name, fn |-> fn, args |-> args, pre |-> seq,
     kind |-> IF r.fresh THEN "new" ELSE "self",
     out |-> r.out, val |-> 0, calls |-> calls]

\* A call that returned the scalar v.
ValCall(name, fn, v, calls) ==
    [name |-> name, fn |-> fn, args |-> <<>>, pre |-> seq,
     kind |-> "value", out |-> <<>>, val |-> v, calls |-> calls]

\* The pairs of consecutive calls whose results the properties compare.
Paired ==
    {<<"keep", "keep">>, <<"keep", "rem">>, <<"clone.keep", "clone.rem">>,
     <<"some", "find">>, <<"count", "keep">>}

\* prev after the call `new`: the call before it, when the two are a compared
\* pair (with the same fn-spec, except keep after keep).
Hist(new) ==
    IF /\ <<op.name, new.name>> \in Paired
       /\ (op.fn = new.fn \/ <<op.name, new.name>> = <<"keep", "keep">>)
    THEN op ELSE NoCall

Returns(r, rec) ==
    /\ seq' = r.self
    /\ op' = rec
    /\ prev' = Hist(rec)
    /\ UNCHANGED <<d, d0, dop>>

Answers(rec) ==
    /\ op' = rec
    /\ prev' = Hist(rec)
    /\ UNCHANGED <<seq, d, d0, dop>>

\* ------------------------------------------------------------------------
\* List: the operations
\* ------------------------------------------------------------------------

List_clone_call ==
    LET r == List_clone(seq)
    IN  Returns(r, RefCall("clone", NoFn, <<>>, r, <<>>))

List_map(fn) ==
    LET r == List_moka_assign(seq, MapItems(seq, fn))
    IN  Returns(r, RefCall("map", fn, <<>>, r, Argvs(Trace(seq, List_f(fn)))))

List_keep(fn) ==
    LET r == List_keep_effect(seq, fn)
    IN  Returns(r, RefCall("keep", fn, <<>>, r, Argvs(Trace(seq, List_f(fn)))))

List_rem(fn) ==
    LET r == List_rem_effect(seq, fn)
    IN  Returns(r, RefCall("rem", fn, <<>>, r, Argvs(Trace(seq, List_f(fn)))))

\* self.seq.clone().keep(...), the idiom of test_keep
List_clone_keep(fn) ==
    LET c == List_clone(seq)
        r == Chain(c, List_keep_effect(c.out, fn))
    IN  Returns(r, RefCall("clone.keep", fn, <<>>, r,
                           Argvs(Trace(seq, List_f(fn)))))

\* self.seq.clone().rem(...), the idiom of test_rem
List_clone_rem(fn) ==
    LET c == List_clone(seq)
        r == Chain(c, List_rem_effect(c.out, fn))
    IN  Returns(r, RefCall("clone.rem", fn, <<>>, r,
                           Argvs(Trace(seq, List_f(fn)))))

List_some(fn) ==
    LET t == Trace(seq, List_f(fn))
    IN  Answers(ValCall("some", fn, Bool(FirstHit(t, TRUE) # 0),
                        Argvs(Upto(t, TRUE))))

List_find(fn) ==
    LET t == Trace(seq, List_f(fn))
    IN  Answers(ValCall("find", fn, List_find_value(seq, fn),
                        Argvs(Upto(t, TRUE))))

List_count(fn) ==
    Answers(ValCall("count", fn, List_count_value(seq, fn),
                    Argvs(Trace(seq, List_f(fn)))))

List_count0 ==
    Answers(ValCall("count", NoFn, Len(seq), <<>>))

List_append(x) ==
    /\ Len(seq) < MaxLen
    /\ LET r == List_wrap(seq, "append", <<x>>)
       IN  Returns(r, RefCall("append", NoFn, <<x>>, r, <<>>))

List_extend(xs) ==
    /\ Len(seq) + Len(xs) <= MaxLen
    /\ LET r == List_wrap(seq, "extend", xs)
       IN  Returns(r, RefCall("extend", NoFn, xs, r, <<>>))

List_insert(k, x) ==
    /\ Len(seq) < MaxLen
    /\ LET r == List_wrap(seq, "insert", <<k, x>>)
       IN  Returns(r, RefCall("insert", NoFn, <<k, x>>, r, <<>>))

List_sort ==
    LET r == List_wrap(seq, "sort", <<>>)
    IN  Returns(r, RefCall("sort", NoFn, <<>>, r, <<>>))

List_reverse ==
    LET r == List_wrap(seq, "reverse", <<>>)
    IN  Returns(r, RefCall("reverse", NoFn, <<>>, r, <<>>))

\* ------------------------------------------------------------------------
\* Dict
\* ------------------------------------------------------------------------

Keys == {"a", "b", "c"}

\* Largest value a Dict is built with.
MaxVal == 3

Vals == 1..MaxVal

EmptyDict == [k \in {} |-> 0]

Dicts == UNION {[ks -> Vals] : ks \in SUBSET Keys}

\* Dict.__init__: _moka_save = False, then dict.__init__; last_value is not
\* set until do runs.
Dict_init(items) ==
    [items |-> items, save |-> FALSE, has_last |-> FALSE, last_value |-> 0]

NoDict == Dict_init(EmptyDict)

\* The fn-specs a caller passes to a Dict operation: one keyword naming a
\* function of the operator module with its operand, or a callable with
\* extra positional arguments.
KwForm(k, v) == [kw |-> k, v |-> v, f |-> "", args |-> <<>>]

CallForm(f, args) == [kw |-> "", v |-> 0, f |-> f, args |-> args]

DictPreds ==
    {KwForm(k, v) : k \in {"eq", "lt"}, v \in Vals}
    \cup {CallForm("value_in", <<1, MaxVal>>), CallForm("key_is_a", <<>>)}

DictMaps == {CallForm("double", <<>>), CallForm("to_a", <<>>)}

NoForm == CallForm("", <<>>)

\* getattr(op, k)(a, b)
OpFn(k, a, b) ==
    CASE k = "eq" -> Bool(a = b)
      [] k = "lt" -> Bool(a < b)

\* The callables: lambda k, v, *allowed: v in allowed; lambda k, v: k == 'a';
\* lambda k, v: (k, v * 2); lambda k, v: ('a', v).
ApplyD(f, argv) ==
    CASE f = "value_in" -> Bool(\E j \in 3..Len(argv) : argv[j] = argv[2])
      [] f = "key_is_a" -> Bool(argv[1] = "a")
      [] f = "double"   -> <<argv[1], argv[2] * 2>>
      [] f = "to_a"     -> <<"a", argv[2]>>

\* Dict._f: with keyword arguments, the shortcut closure over (fn, v);
\* otherwise the callable is popped and two slots for x and y are put in
\* front of the remaining arguments.
Dict_f(form) ==
    IF form.kw # ""
    THEN [mode |-> "kw", fn |-> form.kw, v |-> form.v, f |-> "", args |-> <<>>]
    ELSE [mode |-> "call", fn |-> "", v |-> 0, f |-> form.f,
          args |-> <<None, None>> \o form.args]

\* The bound function on the pair (x, y): lambda _, y: fn(y, v), or tmp.
DictCall(cl, x, y) ==
    IF cl.mode = "kw" THEN OpFn(cl.fn, y, cl.v)
    ELSE ApplyD(cl.f, <<x, y>> \o SubSeq(cl.args, 3, Len(cl.args)))

\* self.items()
Items(m) == {<<k, m[k]>> : k \in DOMAIN m}

\* dict(pairs): every key gets the value of one of its pairs; which one is
\* left to the order items() yields them in.
DictsOf(pairs) ==
    LET ks == {p[1] : p \in pairs}
        vs == {p[2] : p \in pairs}
    IN  {g \in [ks -> vs] : \A k \in ks : <<k, g[k]>> \in pairs}

\* _moka_assign: nothing when _moka_save is set, else Dict(items)
Dict_moka_assign(self, pairs) ==
    IF self.save
    THEN {[kind |-> "none", out |-> EmptyDict]}
    ELSE {[kind |-> "dict", out |-> g] : g \in DictsOf(pairs)}

\* (f(x, y) for x, y in self.items())
Dict_map_pairs(self, form) ==
    {DictCall(Dict_f(form), p[1], p[2]) : p \in Items(self.items)}

\* A slip in keep: the test is negated.
Dict_keep_pairs_not(self, form) ==
    {p \in Items(self.items) : ~Truthy(DictCall(Dict_f(form), p[1], p[2]))}

\* ((x, y) for x, y in self.items() if f(x, y))
Dict_keep_pairs(self, form) ==
    {p \in Items(self.items) : Truthy(DictCall(Dict_f(form), p[1], p[2]))}

\* ((x, y) for x, y in self.items() if not f(x, y))
Dict_rem_pairs(self, form) ==
    {p \in Items(self.items) : ~Truthy(DictCall(Dict_f(form), p[1], p[2]))}

\* dict.update(inst, other) and dict.clear(inst)
NativeD(method, items, other) ==
    CASE method = "update" ->
            [k \in DOMAIN items \cup DOMAIN other |->
                IF k \in DOMAIN other THEN other[k] ELSE items[k]]
      [] method = "clear" -> EmptyDict

\* A slip in wrap: the native method is applied to the receiver itself.
Dict_wrap_self(self, method, other) ==
    [self |-> [self EXCEPT !.items = NativeD(method, self.items, other)],
     kind |-> "self", out |-> NativeD(method, self.items, other)]

\* _proxy's wrap: inst = Dict(self); dict.<method>(inst, ...); return inst
Dict_wrap(self, method, other) ==
    [self |-> self, kind |-> "dict",
     out |-> NativeD(method, Dict_init(self.items).items, other)]

DictRec(name, form, other, kind, out, val) ==
    [name |-> name, fn |-> form, other |-> other, pre |-> d.items,
     kind |-> kind, out |-> out, val |-> val]

NoDictCall ==
    [name |-> "none", fn |-> NoForm, other |-> EmptyDict, pre |-> EmptyDict,
     kind |-> "none", out |-> EmptyDict, val |-> 0]

DictAnswers(rec) ==
    /\ dop' = rec
    /\ UNCHANGED <<seq, op, prev, d, d0>>

Dict_map(form) ==
    \E r \in Dict_moka_assign(d, Dict_map_pairs(d, form)) :
        DictAnswers(DictRec("map", form, EmptyDict, r.kind, r.out, 0))

Dict_keep(form) ==
    \E r \in Dict_moka_assign(d, Dict_keep_pairs(d, form)) :
        DictAnswers(DictRec("keep", form, EmptyDict, r.kind, r.out, 0))

Dict_rem(form) ==
    \E r \in Dict_moka_assign(d, Dict_rem_pairs(d, form)) :
        DictAnswers(DictRec("rem", form, EmptyDict, r.kind, r.out, 0))

Dict_all(form) ==
    DictAnswers(DictRec("all", form, EmptyDict, "value", EmptyDict,
        Bool(\A p \in Items(d.items) :
                Truthy(DictCall(Dict_f(form), p[1], p[2])))))

Dict_some(form) ==
    DictAnswers(DictRec("some", form, EmptyDict, "value", EmptyDict,
        Bool(\E p \in Items(d.items) :
                Truthy(DictCall(Dict_f(form), p[1], p[2])))))

\* len(r) for the result r of _moka_assign; len(None) raises TypeError
LenOf(r) ==
    IF r.kind = "dict"
    THEN [kind |-> "value", val |-> Cardinality(DOMAIN r.out)]
    ELSE [kind |-> "raise", val |-> 0]

\* count with a predicate: len(Dict(self).keep(...))
Dict_count(form) ==
    \E r \in Dict_moka_assign(Dict_init(d.items),
                              Dict_keep_pairs(Dict_init(d.items), form)) :
        DictAnswers(DictRec("count", form, EmptyDict, LenOf(r).kind,
                            EmptyDict, LenOf(r).val))

Dict_count0 ==
    DictAnswers(DictRec("count", NoForm, EmptyDict, "value", EmptyDict,
                        Cardinality(DOMAIN d.items)))

\* empty with a predicate: len(Dict(self).rem(...)) == 0
Dict_empty(form) ==
    \E r \in Dict_moka_assign(Dict_init(d.items),
                              Dict_rem_pairs(Dict_init(d.items), form)) :
        DictAnswers(DictRec("empty", form, EmptyDict, LenOf(r).kind,
                            EmptyDict, Bool(LenOf(r).val = 0)))

Dict_empty0 ==
    DictAnswers(DictRec("empty", NoForm, EmptyDict, "value", EmptyDict,
                        Bool(Cardinality(DOMAIN d.items) = 0)))

Dict_copy ==
    DictAnswers(DictRec("copy", NoForm, EmptyDict, "dict",
                        Dict_init(d.items).items, 0))

\* The native mutators keep the receiver only if wrap left it alone.
Dict_update(other) ==
    LET r == Dict_wrap(d, "update", other)
    IN  /\ d' = r.self
        /\ dop' = DictRec("update", NoForm, other, r.kind, r.out, 0)
        /\ UNCHANGED <<seq, op, prev, d0>>

Dict_clear ==
    LET r == Dict_wrap(d, "clear", EmptyDict)
    IN  /\ d' = r.self
        /\ dop' = DictRec("clear", NoForm, EmptyDict, r.kind, r.out, 0)
        /\ UNCHANGED <<seq, op, prev, d0>>

\* do(len): self.last_value = function(self); return self
Dict_do ==
    /\ d' = [d EXCEPT !.has_last = TRUE,
                      !.last_value = Cardinality(DOMAIN d.items)]
    /\ dop' = DictRec("do", NoForm, EmptyDict, "self", d.items, 0)
    /\ UNCHANGED <<seq, op, prev, d0>>

\* A caller of the transforming and querying operations of List.
Init ==
    /\ seq \in Lists
    /\ op = NoCall
    /\ prev = NoCall
    /\ d = NoDict
    /\ d0 = EmptyDict
    /\ dop = NoDictCall

Next ==
    \/ List_clone_call
    \/ \E fn \in FnSpecs : List_map(fn)
    \/ \E fn \in FnSpecs : List_keep(fn)
    \/ \E fn \in FnSpecs : List_rem(fn)
    \/ \E fn \in FnSpecs : List_clone_keep(fn)
    \/ \E fn \in FnSpecs : List_clone_rem(fn)
    \/ \E fn \in FnSpecs : List_some(fn)
    \/ \E fn \in FnSpecs : List_find(fn)
    \/ \E fn \in FnSpecs : List_count(fn)
    \/ List_count0

Spec == Init /\ [][Next]_vars

\* A caller of the native mutators that _proxy wraps.
NextNative ==
    \/ \E x \in Elem : List_append(x)
    \/ \E xs \in Lists : List_extend(xs)
    \/ \E k \in -(MaxLen + 1)..(MaxLen + 1), x \in Elem : List_insert(k, x)
    \/ List_sort
    \/ List_reverse

SpecNative == Init /\ [][NextNative]_vars

\* A caller of Dict.
InitDict ==
    /\ seq = <<>>
    /\ op = NoCall
    /\ prev = NoCall
    /\ d \in {Dict_init(m) : m \in Dicts}
    /\ d0 = d.items
    /\ dop = NoDictCall

\* The dicts handed to update: at most one pair.
Others == {m \in Dicts : Cardinality(DOMAIN m) <= 1}

NextDict ==
    \/ \E form \in DictMaps : Dict_map(form)
    \/ \E form \in DictPreds : Dict_keep(form)
    \/ \E form \in DictPreds : Dict_rem(form)
    \/ \E form \in DictPreds : Dict_all(form)
    \/ \E form \in DictPreds : Dict_some(form)
    \/ \E form \in DictPreds : Dict_count(form)
    \/ Dict_count0
    \/ \E form \in DictPreds : Dict_empty(form)
    \/ Dict_empty0
    \/ Dict_copy
    \/ \E other \in Others : Dict_update(other)
    \/ Dict_clear
    \/ Dict_do

SpecDict == InitDict /\ [][NextDict]_vars

\* ------------------------------------------------------------------------
\* Properties
\* ------------------------------------------------------------------------

\* p(x): the bound function of fn-spec fn, called on x alone.
Sat(fn, x) == Truthy(Call(List_f(fn), x).out)

\* f(x) for the bound function of fn-spec fn.
FVal(fn, x) == Call(List_f(fn), x).out

\* The elements of l at the indices in I, in l's order.
RECURSIVE SubAt(_, _, _)
SubAt(l, I, j) ==
    IF j > Len(l) THEN <<>>
    ELSE (IF j \in I THEN <<l[j]>> ELSE <<>>) \o SubAt(l, I, j + 1)

\* k and r split l: every index of l goes to exactly one of them, and each
\* keeps l's order.
IsPartition(l, k, r) ==
    \E I \in SUBSET (1..Len(l)) :
        /\ SubAt(l, I, 1) = k
        /\ SubAt(l, (1..Len(l)) \ I, 1) = r

SatIdx(fn, l) == {j \in 1..Len(l) : Sat(fn, l[j])}

\* C1 as stated: s.keep(p) then s.rem(p) on the same s give lengths that add
\* up to the length of the original s, and the two results partition it in
\* order.
C1_KeepRemPartition ==
    (prev.name = "keep" /\ op.name = "rem") =>
        /\ Len(prev.out) + Len(op.out) = Len(prev.pre)
        /\ IsPartition(prev.pre, prev.out, op.out)

\* C1 amended: s.clone().keep(p) and s.clone().rem(p), each run on its own
\* copy of s, give lengths that add up to len(s) and partition s in order;
\* s itself is left as it was.
C1_CloneKeepRemPartition ==
    (prev.name = "clone.keep" /\ op.name = "clone.rem") =>
        /\ op.pre = prev.pre
        /\ seq = prev.pre
        /\ Len(prev.out) + Len(op.out) = Len(seq)
        /\ IsPartition(seq, prev.out, op.out)

C1_Witness ==
    /\ prev.name = "clone.keep" /\ op.name = "clone.rem"
    /\ Len(seq) = MaxLen
    /\ prev.out # <<>> /\ op.out # <<>>

\* C2 as stated: map, keep and rem return a new wrapper and leave the
\* receiver's elements as they were; map's result is f applied element by
\* element.
C2_NewWrapper ==
    op.name \in {"map", "keep", "rem"} =>
        /\ op.kind = "new"
        /\ seq = op.pre
        /\ op.name = "map" =>
              /\ Len(op.out) = Len(op.pre)
              /\ \A j \in 1..Len(op.pre) : op.out[j] = FVal(op.fn, op.pre[j])

\* C2 amended: map, keep and rem return the receiver itself, whose elements
\* they replace by the result: map's result has the length of the old
\* contents with f applied element by element in order; keep (rem) leaves the
\* elements for which p was truthy (falsy), in their original order.
C2_InPlace ==
    op.name \in {"map", "keep", "rem"} =>
        /\ op.kind = "self"
        /\ seq = op.out
        /\ op.name = "map" =>
              /\ Len(op.out) = Len(op.pre)
              /\ \A j \in 1..Len(op.pre) : op.out[j] = FVal(op.fn, op.pre[j])
        /\ op.name = "keep" => op.out = SubAt(op.pre, SatIdx(op.fn, op.pre), 1)
        /\ op.name = "rem" =>
              op.out = SubAt(op.pre, (1..Len(op.pre)) \ SatIdx(op.fn, op.pre), 1)

C2_Witness ==
    /\ op.name = "map"
    /\ Len(op.pre) = MaxLen
    /\ seq # op.pre
    /\ seq[1] # seq[2]

\* C3: a native mutator returns the receiver itself, mutated in place; after
\* append the receiver is one longer.
C3_NativeReturnsSelf ==
    op.name \in {"append", "extend", "insert", "sort", "reverse"} =>
        /\ op.kind = "self"
        /\ seq = op.out
        /\ op.name = "append" => Len(seq) = Len(op.pre) + 1

\* The index list.insert(i, x) puts x after, in a list of n elements.
Slot(i, n) ==
    CASE i >= n              -> n
      [] 0 <= i /\ i < n     -> i
      [] i < 0 /\ i + n >= 0 -> i + n
      [] i + n < 0           -> 0

C5_KeepAccumulates ==
    /\ op.name = "keep" => seq = SubAt(op.pre, SatIdx(op.fn, op.pre), 1)
    /\ (prev.name = "keep" /\ op.name = "keep") =>
          /\ op.pre = prev.out
          /\ seq = SubAt(prev.pre,
                         SatIdx(prev.fn, prev.pre) \cap SatIdx(op.fn, prev.pre), 1)

C5_Witness ==
    /\ prev.name = "keep" /\ op.name = "keep"
    /\ prev.fn # op.fn
    /\ Len(prev.pre) = MaxLen
    /\ Len(op.pre) < Len(prev.pre)
    /\ Len(seq) < Len(op.pre)
    /\ seq # <<>>

\* The first element of l that satisfies fn, None if none does.
FirstSat(fn, l) ==
    IF SatIdx(fn, l) = {} THEN None
    ELSE l[CHOOSE j \in SatIdx(fn, l) : \A k \in SatIdx(fn, l) : j <= k]

\* C6 as stated: some(p) is true exactly when find(p) returns something
\* other than the not-found result (None), and then find returns the first
\* match.
C6_SomeIffFound ==
    (prev.name = "some" /\ op.name = "find") =>
        /\ (prev.val = 1) <=> (op.val # None)
        /\ prev.val = 1 => op.val = FirstSat(op.fn, op.pre)

\* C6 amended: find returns the first element that satisfies p, and None
\* when there is none; some(p) is true exactly when find(p) is not None
\* unless that first match is itself None.
C6_SomeIffFoundUnlessNone ==
    (prev.name = "some" /\ op.name = "find") =>
        /\ (prev.val = 1) <=> (SatIdx(op.fn, op.pre) # {})
        /\ op.val = FirstSat(op.fn, op.pre)
        /\ FirstSat(op.fn, op.pre) # None => (prev.val = 1 /\ op.val # None)
        /\ prev.val = 0 => op.val = None

C6_Witness ==
    /\ prev.name = "some" /\ op.name = "find"
    /\ Len(op.pre) = MaxLen
    /\ SatIdx(op.fn, op.pre) = {2, 3}
    /\ op.pre[2] # op.pre[3]
    /\ op.val = op.pre[2]

\* C7: count() is the length; count(p) is the number of elements satisfying
\* p, which is the length of what keep(p) returns.
C7_Count ==
    /\ (op.name = "count" /\ op.fn = NoFn) => op.val = Len(seq)
    /\ (op.name = "count" /\ op.fn # NoFn) =>
          op.val = Cardinality(SatIdx(op.fn, seq))
    /\ (prev.name = "count" /\ op.name = "keep") => prev.val = Len(op.out)

C7_Witness ==
    /\ prev.name = "count" /\ op.name = "keep"
    /\ prev.val = 2
    /\ Len(prev.pre) = MaxLen

\* C8: with the placeholder at position i of the extra arguments, every call
\* of a traversal passes f the extra arguments with the element in slot i
\* and the others where they were, never the element in front.
C8_BlankSlot ==
    \A i \in 1..Len(op.fn.args) :
        op.fn.args[i] = Blank =>
            /\ op.name \in {"map", "keep", "rem"} => Len(op.calls) = Len(op.pre)
            /\ \A j \in 1..Len(op.calls) :
                  op.calls[j] = [k \in 1..Len(op.fn.args) |->
                                    IF k = i THEN op.pre[j] ELSE op.fn.args[k]]

C8_Witness ==
    /\ op.name = "keep"
    /\ Len(op.fn.args) = 2 /\ op.fn.args[2] = Blank
    /\ Len(op.calls) = MaxLen
    /\ op.pre[1] # op.pre[2]
    /\ op.pre[1] # op.fn.args[1] /\ op.pre[2] # op.fn.args[1]

\* m without the keys outside ks.
Restrict(m, ks) == [k \in ks |-> m[k]]

\* C9: keep(eq=v) returns a Dict with exactly the pairs whose value is v,
\* whatever their key, and rem(eq=v) exactly the other pairs.
C9_EqShortcut ==
    (dop.name \in {"keep", "rem"} /\ dop.fn.kw = "eq") =>
        /\ dop.kind = "dict"
        /\ dop.name = "keep" =>
              dop.out = Restrict(dop.pre,
                                 {k \in DOMAIN dop.pre : dop.pre[k] = dop.fn.v})
        /\ dop.name = "rem" =>
              dop.out = Restrict(dop.pre,
                                 {k \in DOMAIN dop.pre : dop.pre[k] # dop.fn.v})

\* Dict({'a': 1, 'b': 2, 'c': 3}).keep(eq=2) == {'b': 2}
C9_Witness ==
    /\ dop.name = "keep"
    /\ dop.fn = KwForm("eq", 2)
    /\ dop.pre = [k \in Keys |-> CASE k = "a" -> 1 [] k = "b" -> 2 [] k = "c" -> 3]
    /\ dop.out = [k \in {"b"} |-> 2]

\* C10: no call changes the receiver's contents or sets its save flag; map,
\* keep, rem, copy, update and clear return a new Dict (never None), the
\* queries a value; only do changes the receiver, and only its last_value.
C10_ReceiverUntouched ==
    [][/\ d'.items = d0' /\ d0' = d0
       /\ d'.save = FALSE
       /\ dop'.name \in {"map", "keep", "rem", "copy", "update", "clear"} =>
             dop'.kind = "dict"
       /\ dop'.name \in {"some", "all", "count", "empty"} => dop'.kind = "value"
       /\ d' # d =>
             /\ dop'.name = "do"
             /\ d' = [d EXCEPT !.has_last = TRUE,
                               !.last_value = Cardinality(DOMAIN d0)]]_vars

C10_Witness ==
    /\ dop.name = "update"
    /\ dop.out # d.items
    /\ d.has_last
    /\ d.items = d0
    /\ Cardinality(DOMAIN d0) = 2

====
